---- MODULE Spec2Model ----
(***************************************************************************)
(* Payment gateway relay (src/index.js): the POST /pay pipeline and the    *)
(* payment record store it drives.                                         *)
(*                                                                         *)
(* JavaScript runs a handler to completion between two awaits, so every    *)
(* action below is one segment of the handler: from the return of the      *)
(* awaited call to the issue of the next one (or to the HTTP response).    *)
(* The upstream gateway and the store are the environment: the reply of    *)
(* an upstream call and the outcome of a store operation are chosen with   *)
(* \E from the sets defined below.                                         *)
(***************************************************************************)
EXTENDS Integers, Sequences, FiniteSets, TLC

(* ------------------------------ bounds --------------------------------- *)

\* number of POST /pay requests that may be in flight together
NumReqs == 2

\* the last millisecond of the clock
MaxTime == 11

Reqs == 1..NumReqs

(* ------------------------- JavaScript values --------------------------- *)
\* Values are strings; the values that are not strings in JavaScript carry
\* a '#' mark.  A JSON object is a function from property paths
\* ("data.token") to values; the JSON body null is the object NullBody.

Undef == "#undefined"

JsNull == "#null"

NumZero == "#0"

Truthy(v) == v \notin {Undef, JsNull, NumZero, ""}

EmptyObj == [p \in {} |-> ""]

NullBody == [p \in {"#null"} |-> JsNull]

IsNullBody(o) == "#null" \in DOMAIN o

\* o?.a?.b : the value at the path, undefined when a link is absent
Get(o, path) == IF path \in DOMAIN o THEN o[path] ELSE Undef

\* a || b || ... : the first truthy operand, else the last operand
RECURSIVE OrChain(_)
OrChain(vs) ==
  IF Len(vs) = 1 THEN Head(vs)
  ELSE IF Truthy(Head(vs)) THEN Head(vs) ELSE OrChain(Tail(vs))

\* JSON.stringify of a parsed JSON body: its text, tagged by its kind
JSONstringify(o) ==
  IF IsNullBody(o) THEN [text |-> "null", of |-> EmptyObj]
  ELSE [text |-> "object", of |-> o]

NoText == [text |-> "", of |-> EmptyObj]

\* faulty variant: the stored text is handed out undecoded
JSONparse_Raw(t) == [p \in {"#text"} |-> t.text]

\* JSON.parse of a text JSON.stringify produced
JSONparse(t) == IF t.text = "null" THEN NullBody ELSE t.of

\* column ? JSON.parse(column) : null
Decoded(column) == IF column = NoText THEN NullBody ELSE JSONparse(column)

(* ---------------------- getNetworkBankCode ----------------------------- *)
\* A string is a sequence of characters; NotAString marks a network value
\* that is no string (a number), on which toUpperCase is not a function.

NotAString == <<"#5">>

UpperChar(c) ==
  CASE c = "m" -> "M" [] c = "t" -> "T" [] c = "n" -> "N"
    [] c = "v" -> "V" [] c = "o" -> "O" [] c = "d" -> "D"
    [] c = "a" -> "A" [] c = "f" -> "F" [] c = "e" -> "E"
    [] c = "l" -> "L" [] c = "c" -> "C"
    [] OTHER -> c

toUpperCase(s) == [i \in DOMAIN s |-> UpperChar(s[i])]

RECURSIVE TrimStart(_)
TrimStart(s) ==
  IF s # <<>> /\ Head(s) = " " THEN TrimStart(Tail(s)) ELSE s

RECURSIVE TrimEnd(_)
TrimEnd(s) ==
  IF s # <<>> /\ s[Len(s)] = " " THEN TrimEnd(SubSeq(s, 1, Len(s) - 1)) ELSE s

\* faulty variant: the network name is not trimmed
trim_Missing(s) == s

trim(s) == TrimEnd(TrimStart(s))

\* process.env.*_BANK_CODE: here TELECEL_BANK_CODE is left unset
Env ==
  [MTN_BANK_CODE |-> "300591", AIRTELTIGO_BANK_CODE |-> "300592",
   TELECEL_BANK_CODE |-> Undef]

networkMap(name) ==
  CASE name = <<"M", "T", "N">> -> Env.MTN_BANK_CODE
    [] name = <<"A", "I", "R", "T", "E", "L", "T", "I", "G", "O">> -> Env.AIRTELTIGO_BANK_CODE
    [] name = <<"T", "E", "L", "E", "C", "E", "L">> -> Env.TELECEL_BANK_CODE
    [] OTHER -> Undef

\* the bank code, or Undef where the code throws
getNetworkBankCode(network) ==
  IF network = NotAString THEN Undef
  ELSE LET bankCode == networkMap(trim(toUpperCase(network)))
       IN IF ~Truthy(bankCode) THEN Undef ELSE bankCode

(* ------------------------- gateway client ------------------------------ *)
\* What an awaited axios call yields: err is TRUE when axios rejects
\* (transport error or a non-2xx status), else body is response.data.

Reply(body) == [err |-> FALSE, body |-> body]

Failure == [err |-> TRUE, body |-> EmptyObj]

Obj1(p, v) == [q \in {p} |-> v]

Obj2(p1, v1, p2, v2) == [q \in {p1, p2} |-> IF q = p1 THEN v1 ELSE v2]

AuthReplies ==
  { Failure,
    Reply(Obj2("message", "ok", "data.Token", "tok")),
    Reply(Obj1("message", "denied")),
    Reply(Obj1("token", "")),
    Reply(NullBody) }

NameEnquiryReplies ==
  { Failure,
    Reply(Obj2("nametocredit", "", "Name", "KOFI")),
    Reply(Obj1("message", "unknown account")),
    Reply(NullBody) }

CollectReplies ==
  { Failure,
    Reply(Obj1("message.status", "000")),
    Reply(Obj2("message.status", NumZero, "data.status", "0")),
    Reply(Obj2("message.status", "01", "data.status", "000")),
    Reply(NullBody) }

\* the outcome of a function of the program: a value, or a thrown Error
Return(v) == [threw |-> FALSE, value |-> v, message |-> ""]

Throw(msg) == [threw |-> TRUE, value |-> Undef, message |-> msg]

ThrowObj(msg) == [threw |-> TRUE, value |-> EmptyObj, message |-> msg]

\* faulty variant: token is probed before result
TokenFields_TokenFirst ==
  <<"token", "result", "Token", "accessToken", "access_token",
    "data.token", "data.Token">>

TokenFields ==
  <<"result", "token", "Token", "accessToken", "access_token",
    "data.token", "data.Token">>

\* faulty variant: a reply without a token is not rejected
authenticate_NoCheck(reply) ==
  IF reply.err THEN Throw("Authentication error")
  ELSE Return(OrChain([i \in DOMAIN TokenFields |-> Get(reply.body, TokenFields[i])]))

authenticate(reply) ==
  IF reply.err THEN Throw("Authentication error")
  ELSE LET token == OrChain([i \in DOMAIN TokenFields |-> Get(reply.body, TokenFields[i])])
       IN IF Truthy(token) THEN Return(token)
          ELSE Throw("Authentication error")

performNameEnquiry(reply) ==
  IF reply.err THEN ThrowObj("Name enquiry error") ELSE Return(reply.body)

processCollection(reply) ==
  IF reply.err THEN ThrowObj("Collection error") ELSE Return(reply.body)

AccountNameFields ==
  <<"data.nametocredit", "data.NameToCredit", "nametocredit", "accountName",
    "AccountName", "name", "Name">>

\* faulty variant: a body without a name gets a default name instead of an error
accountNameOf_Default(nameEnquiryResult) ==
  LET accountName ==
        OrChain([i \in DOMAIN AccountNameFields |->
                   Get(nameEnquiryResult, AccountNameFields[i])])
  IN IF ~Truthy(accountName) THEN "UNKNOWN" ELSE accountName

\* the account name the handler extracts; Undef where it throws (a null
\* body has no property data, a body without a name is rejected)
accountNameOf(nameEnquiryResult) ==
  IF IsNullBody(nameEnquiryResult) THEN Undef
  ELSE LET accountName ==
             OrChain([i \in DOMAIN AccountNameFields |->
                        Get(nameEnquiryResult, AccountNameFields[i])])
       IN IF ~Truthy(accountName) THEN Undef ELSE accountName

collectionStatusOf(collectionResult) ==
  OrChain(<<Get(collectionResult, "message.status"),
            Get(collectionResult, "data.status")>>)

\* faulty variant: only "000" counts as a success code
isSuccessOf_Only000(collectionResult) ==
  collectionStatusOf(collectionResult) = "000"

isSuccessOf(collectionResult) ==
  LET collectionStatus == collectionStatusOf(collectionResult)
  IN collectionStatus = "000" \/ collectionStatus = "0"

\* faulty variant: a collect that returned always completes the payment
finalStatusOf_AlwaysCompleted(collectionResult) == "completed"

finalStatusOf(collectionResult) ==
  IF isSuccessOf(collectionResult) THEN "completed" ELSE "failed"

(* ------------------------------ state ---------------------------------- *)

VARIABLES
  now,       \* the clock (Date.now(), new Date()), in milliseconds
  pc,        \* pc[r]: the await at which request r is suspended
  loc,       \* loc[r]: the local variables of request r's handler
  payments,  \* the payments table, in order of creation
  http,      \* http[r]: the HTTP response sent for request r
  log,       \* log[r]: the awaited calls of request r, in order (history)
  lookup     \* the handler of GET /payment/:transactionId and its response

vars == <<now, pc, loc, payments, http, log, lookup>>

\* faulty variant: the handler does not wait between the two identifiers
Delay_None == 10 - 10

\* setTimeout(resolve, 10)
Delay == 10

NoId == <<>>

NoPayment == 0

NoError == ""

NoDate == {}

UndefNetwork == <<"#undefined">>

TruthyNetwork(n) == n \notin {UndefNetwork, <<>>}

\* the request bodies handed to POST /pay
AccountNumbers == {Undef, "0241234567"}

Amounts == {Undef, NumZero, "50"}

Networks ==
  { UndefNetwork,
    <<" ", "m", "t", "n", " ">>,
    <<"V", "o", "d", "a", "f", "o", "n", "e">>,
    <<"T", "e", "l", "e", "c", "e", "l">>,
    NotAString }

Bodies == [accountNumber : AccountNumbers, amount : Amounts, network : Networks]

parseFloat(v) == IF v = "50" THEN 50 ELSE 0

InitLoc ==
  [ accountNumber |-> Undef, amount |-> Undef, network |-> UndefNetwork,
    nameEnquiryTransactionID |-> NoId, collectionTransactionID |-> NoId,
    bankCode |-> Undef, token |-> Undef,
    nameEnquiryResult |-> EmptyObj, accountName |-> Undef,
    payment |-> NoPayment, collectionResult |-> EmptyObj,
    error |-> NoError, completedAt |-> NoDate ]

\* no lookup has been received yet
NoLookup ==
  [pc |-> "idle", transactionId |-> NoId, code |-> 0, success |-> FALSE,
   message |-> "", payment |-> <<>>, threw |-> FALSE]

NoResponse ==
  [code |-> 0, success |-> FALSE, message |-> "", status |-> "",
   paymentId |-> NoPayment, sent |-> 0]

Init ==
  /\ now = 0
  /\ pc = [r \in Reqs |-> "idle"]
  /\ loc = [r \in Reqs |-> InitLoc]
  /\ payments = <<>>
  /\ http = [r \in Reqs |-> NoResponse]
  /\ log = [r \in Reqs |-> <<>>]
  /\ lookup = NoLookup

\* new Date(), as the value of a nullable column
newDate == {now}

generateTransactionID ==
  LET timestamp == now
  IN <<"MSH-", timestamp>>

(* ------------------------- history of a request ------------------------ *)
\* An awaited call is entered as "inflight" when it is issued and settled
\* when the await resumes: out is "ok" when the awaited function returned
\* and "threw" when it threw, reply is what the gateway or the store
\* answered.

\* a call that carries a transaction id (create, collect) is logged with it
IssuedFor(l, op, id) ==
  Append(l, [op |-> op, out |-> "inflight", reply |-> Failure, id |-> id])

Issued(l, op) == IssuedFor(l, op, NoId)

Settled(l, out, reply) == [l EXCEPT ![Len(l)].out = out, ![Len(l)].reply = reply]

StoreReply(ok) == IF ok THEN Reply(EmptyObj) ELSE Failure

(* --------------------------- record store ------------------------------ *)

\* prisma.payment.create: the new row; owner and terminalUpdates are
\* history fields of the model (who created the row, how many updates
\* wrote a terminal status to it)
NewPayment(r, l) ==
  [ id |-> Len(payments) + 1,
    transactionId |-> l.collectionTransactionID,
    nameEnquiryTransactionId |-> l.nameEnquiryTransactionID,
    destBank |-> l.bankCode,
    accountNumber |-> l.accountNumber,
    accountName |-> l.accountName,
    amount |-> parseFloat(l.amount),
    status |-> "pending",
    verificationResponse |-> JSONstringify(l.nameEnquiryResult),
    response |-> NoText,
    completedAt |-> NoDate,
    owner |-> r,
    terminalUpdates |-> 0 ]

\* the unique index on transactionId rejects a second row with the same id
UniqueViolation(tid) ==
  \E i \in DOMAIN payments : payments[i].transactionId = tid

\* faulty variant: the update after creation writes the wrong status
UpdateProcessing_Completed(id) ==
  [payments EXCEPT ![id].status = "completed"]

\* faulty variant: the update has no where clause and reaches every row
UpdateProcessing_EveryRow(id) ==
  [i \in DOMAIN payments |-> [payments[i] EXCEPT !.status = "processing"]]

\* prisma.payment.update({where: {id}, data: {status: 'processing'}})
UpdateProcessing(id) ==
  [payments EXCEPT ![id].status = "processing"]

\* faulty variant: the terminal update leaves completedAt unset
UpdateTerminal_NoTimestamp(id, status, response, completedAt) ==
  [payments EXCEPT ![id].status = status,
                   ![id].response = response,
                   ![id].terminalUpdates = @ + 1]

\* prisma.payment.update({where: {id}, data: {status, response, completedAt}})
UpdateTerminal(id, status, response, completedAt) ==
  [payments EXCEPT ![id].status = status,
                   ![id].response = response,
                   ![id].completedAt = completedAt,
                   ![id].terminalUpdates = @ + 1]

(* ---------------------------- POST /pay -------------------------------- *)

\* faulty variant: a 200 response always reports completed
Respond_StatusCompleted(r, code, success, message, status, paymentId) ==
  /\ http' = [http EXCEPT ![r] =
                [code |-> code, success |-> success, message |-> message,
                 status |-> IF code = 200 THEN "completed" ELSE status,
                 paymentId |-> paymentId, sent |-> @.sent + 1]]
  /\ pc' = [pc EXCEPT ![r] = "done"]
  /\ loc' = [loc EXCEPT ![r] = InitLoc]

\* res.status(code).json(...): the handler ends, its locals are dropped
Respond(r, code, success, message, status, paymentId) ==
  /\ http' = [http EXCEPT ![r] =
                [code |-> code, success |-> success, message |-> message,
                 status |-> status, paymentId |-> paymentId, sent |-> @.sent + 1]]
  /\ pc' = [pc EXCEPT ![r] = "done"]
  /\ loc' = [loc EXCEPT ![r] = InitLoc]

\* faulty variant: the catch block answers without marking the record failed
Catch_NoUpdate(r, message, l) ==
  /\ Respond(r, 500, FALSE, "Payment processing failed", "", NoPayment)
  /\ log' = [log EXCEPT ![r] = l]

\* the catch block of the handler, up to its first await; l is the log of
\* the request with the call that threw settled
Catch(r, message, l) ==
  IF loc[r].payment # NoPayment
  THEN /\ pc' = [pc EXCEPT ![r] = "catchUpdate"]
       /\ loc' = [loc EXCEPT ![r].error = message, ![r].completedAt = newDate]
       /\ log' = [log EXCEPT ![r] = Issued(l, "catchUpdate")]
       /\ UNCHANGED http
  ELSE /\ Respond(r, 500, FALSE, "Payment processing failed", "", NoPayment)
       /\ log' = [log EXCEPT ![r] = l]

\* faulty variant: the validation forgets the amount
Receive_AmountUnchecked(r, body) ==
  /\ pc[r] = "idle"
  /\ \A q \in Reqs : q < r => pc[q] # "idle"
  /\ IF ~Truthy(body.accountNumber) \/ ~TruthyNetwork(body.network)
     THEN Respond(r, 400, FALSE, "Missing required fields", "", NoPayment)
     ELSE /\ now + Delay <= MaxTime
          /\ loc' = [loc EXCEPT ![r].accountNumber = body.accountNumber,
                                ![r].amount = body.amount,
                                ![r].network = body.network,
                                ![r].nameEnquiryTransactionID = generateTransactionID]
          /\ pc' = [pc EXCEPT ![r] = "delay"]
          /\ UNCHANGED http
  /\ UNCHANGED <<now, payments, log, lookup>>

\* validation, first identifier, and the start of the 10 ms timer; a request
\* that is not rejected arrives early enough for its timer to fire by MaxTime
Receive(r, body) ==
  /\ pc[r] = "idle"
  /\ \A q \in Reqs : q < r => pc[q] # "idle"
  /\ IF ~Truthy(body.accountNumber) \/ ~Truthy(body.amount)
        \/ ~TruthyNetwork(body.network)
     THEN Respond(r, 400, FALSE, "Missing required fields", "", NoPayment)
     ELSE /\ now + Delay <= MaxTime
          /\ loc' = [loc EXCEPT ![r].accountNumber = body.accountNumber,
                                ![r].amount = body.amount,
                                ![r].network = body.network,
                                ![r].nameEnquiryTransactionID = generateTransactionID]
          /\ pc' = [pc EXCEPT ![r] = "delay"]
          /\ UNCHANGED http
  /\ UNCHANGED <<now, payments, log, lookup>>

\* the timer fired: second identifier, bank code, authenticate issued
AfterDelay(r) ==
  /\ pc[r] = "delay"
  /\ now >= loc[r].nameEnquiryTransactionID[2] + Delay
  /\ LET bankCode == getNetworkBankCode(loc[r].network)
     IN IF bankCode = Undef
        THEN /\ Respond(r, 400, FALSE, "Invalid network", "", NoPayment)
             /\ UNCHANGED log
        ELSE /\ loc' = [loc EXCEPT ![r].collectionTransactionID = generateTransactionID,
                                   ![r].bankCode = bankCode]
             /\ pc' = [pc EXCEPT ![r] = "authenticate"]
             /\ log' = [log EXCEPT ![r] = Issued(@, "authenticate")]
             /\ UNCHANGED http
  /\ UNCHANGED <<now, payments, lookup>>

\* faulty variant: a failed authenticate is tried once more
AuthReturn_Retry(r, reply) ==
  /\ pc[r] = "authenticate"
  /\ LET res == authenticate(reply)
     IN IF res.threw
        THEN IF Len(log[r]) = 1
             THEN /\ log' = [log EXCEPT ![r] =
                               Issued(Settled(@, "threw", reply), "authenticate")]
                  /\ UNCHANGED <<pc, loc, http>>
             ELSE Catch(r, res.message, Settled(log[r], "threw", reply))
        ELSE /\ loc' = [loc EXCEPT ![r].token = res.value]
             /\ pc' = [pc EXCEPT ![r] = "nameEnquiry"]
             /\ log' = [log EXCEPT ![r] = Issued(Settled(@, "ok", reply), "nameEnquiry")]
             /\ UNCHANGED http
  /\ UNCHANGED <<now, payments, lookup>>

\* authenticate returned or threw; on a token, name-enquiry is issued
AuthReturn(r, reply) ==
  /\ pc[r] = "authenticate"
  /\ LET res == authenticate(reply)
     IN IF res.threw
        THEN Catch(r, res.message, Settled(log[r], "threw", reply))
        ELSE /\ loc' = [loc EXCEPT ![r].token = res.value]
             /\ pc' = [pc EXCEPT ![r] = "nameEnquiry"]
             /\ log' = [log EXCEPT ![r] = Issued(Settled(@, "ok", reply), "nameEnquiry")]
             /\ UNCHANGED http
  /\ UNCHANGED <<now, payments, lookup>>

\* name-enquiry returned or threw; on an account name, create is issued
NameEnquiryReturn(r, reply) ==
  /\ pc[r] = "nameEnquiry"
  /\ LET res == performNameEnquiry(reply)
     IN IF res.threw
        THEN Catch(r, res.message, Settled(log[r], "threw", reply))
        ELSE LET accountName == accountNameOf(res.value)
             IN IF accountName = Undef
                THEN Catch(r, "Account name not found in name enquiry response",
                           Settled(log[r], "ok", reply))
                ELSE /\ loc' = [loc EXCEPT ![r].nameEnquiryResult = res.value,
                                           ![r].accountName = accountName]
                     /\ pc' = [pc EXCEPT ![r] = "create"]
                     /\ log' = [log EXCEPT ![r] =
                                  IssuedFor(Settled(@, "ok", reply), "create",
                                            loc[r].collectionTransactionID)]
                     /\ UNCHANGED http
  /\ UNCHANGED <<now, payments, lookup>>

\* faulty variant: an upsert, which hands back the row that already has the
\* transactionId instead of rejecting the create
CreateReturn_Upsert(r, ok) ==
  /\ pc[r] = "create"
  /\ IF ok
     THEN /\ IF UniqueViolation(loc[r].collectionTransactionID)
             THEN /\ loc' = [loc EXCEPT ![r].payment =
                               CHOOSE i \in DOMAIN payments :
                                 payments[i].transactionId = loc[r].collectionTransactionID]
                  /\ UNCHANGED payments
             ELSE /\ payments' = Append(payments, NewPayment(r, loc[r]))
                  /\ loc' = [loc EXCEPT ![r].payment = Len(payments) + 1]
          /\ pc' = [pc EXCEPT ![r] = "toProcessing"]
          /\ log' = [log EXCEPT ![r] =
                       Issued(Settled(@, "ok", StoreReply(TRUE)), "toProcessing")]
          /\ UNCHANGED http
     ELSE /\ Catch(r, "Prisma error", Settled(log[r], "threw", StoreReply(FALSE)))
          /\ UNCHANGED payments
  /\ UNCHANGED <<now, lookup>>

\* faulty variant: the row is written although its transactionId is taken
CreateReturn_NoUniqueCheck(r, ok) ==
  /\ pc[r] = "create"
  /\ IF ok
     THEN /\ payments' = Append(payments, NewPayment(r, loc[r]))
          /\ loc' = [loc EXCEPT ![r].payment = Len(payments) + 1]
          /\ pc' = [pc EXCEPT ![r] = "toProcessing"]
          /\ log' = [log EXCEPT ![r] =
                       Issued(Settled(@, "ok", StoreReply(TRUE)), "toProcessing")]
          /\ UNCHANGED http
     ELSE /\ Catch(r, "Prisma error", Settled(log[r], "threw", StoreReply(FALSE)))
          /\ UNCHANGED payments
  /\ UNCHANGED <<now, lookup>>

\* prisma.payment.create settled; on success the update to processing is issued
CreateReturn(r, ok) ==
  /\ pc[r] = "create"
  /\ IF ok /\ ~UniqueViolation(loc[r].collectionTransactionID)
     THEN /\ payments' = Append(payments, NewPayment(r, loc[r]))
          /\ loc' = [loc EXCEPT ![r].payment = Len(payments) + 1]
          /\ pc' = [pc EXCEPT ![r] = "toProcessing"]
          /\ log' = [log EXCEPT ![r] =
                       Issued(Settled(@, "ok", StoreReply(TRUE)), "toProcessing")]
          /\ UNCHANGED http
     ELSE /\ Catch(r, "Prisma error", Settled(log[r], "threw", StoreReply(FALSE)))
          /\ UNCHANGED payments
  /\ UNCHANGED <<now, lookup>>

\* faulty variant: collect is issued whether or not the update to
\* processing succeeded
ProcessingReturn_CollectRegardless(r, ok) ==
  /\ pc[r] = "toProcessing"
  /\ payments' = IF ok THEN UpdateProcessing(loc[r].payment) ELSE payments
  /\ pc' = [pc EXCEPT ![r] = "collect"]
  /\ log' = [log EXCEPT ![r] =
               IssuedFor(Settled(@, IF ok THEN "ok" ELSE "threw", StoreReply(ok)),
                         "collect", loc[r].collectionTransactionID)]
  /\ UNCHANGED <<now, loc, http, lookup>>

\* the update to processing settled; on success collect is issued
ProcessingReturn(r, ok) ==
  /\ pc[r] = "toProcessing"
  /\ IF ok
     THEN /\ payments' = UpdateProcessing(loc[r].payment)
          /\ pc' = [pc EXCEPT ![r] = "collect"]
          /\ log' = [log EXCEPT ![r] =
                       IssuedFor(Settled(@, "ok", StoreReply(ok)), "collect",
                                 loc[r].collectionTransactionID)]
          /\ UNCHANGED <<loc, http>>
     ELSE /\ Catch(r, "Prisma error", Settled(log[r], "threw", StoreReply(ok)))
          /\ UNCHANGED payments
  /\ UNCHANGED <<now, lookup>>

\* collect returned or threw; on a return the final update is issued
CollectReturn(r, reply) ==
  /\ pc[r] = "collect"
  /\ LET res == processCollection(reply)
     IN IF res.threw
        THEN Catch(r, res.message, Settled(log[r], "threw", reply))
        ELSE /\ loc' = [loc EXCEPT ![r].collectionResult = res.value,
                                   ![r].completedAt = newDate]
             /\ pc' = [pc EXCEPT ![r] = "finalUpdate"]
             /\ log' = [log EXCEPT ![r] =
                          Issued(Settled(@, "ok", reply), "finalUpdate")]
             /\ UNCHANGED http
  /\ UNCHANGED <<now, payments, lookup>>

\* faulty variant: sending the 200 response throws after the final update was
\* written, and the catch block runs on the finalized record
FinalUpdateReturn_RespondThrows(r, ok) ==
  /\ pc[r] = "finalUpdate"
  /\ IF ok
     THEN /\ payments' = UpdateTerminal(loc[r].payment,
                                        finalStatusOf(loc[r].collectionResult),
                                        JSONstringify(loc[r].collectionResult),
                                        loc[r].completedAt)
          /\ Catch(r, "TypeError", Settled(log[r], "ok", StoreReply(ok)))
     ELSE /\ Catch(r, "Prisma error", Settled(log[r], "threw", StoreReply(ok)))
          /\ UNCHANGED payments
  /\ UNCHANGED <<now, lookup>>

\* the final update settled; on success the 200 response is sent
FinalUpdateReturn(r, ok) ==
  /\ pc[r] = "finalUpdate"
  /\ IF ok
     THEN LET id == loc[r].payment
              updated == UpdateTerminal(id, finalStatusOf(loc[r].collectionResult),
                                        JSONstringify(loc[r].collectionResult),
                                        loc[r].completedAt)
          IN /\ payments' = updated
             /\ Respond(r, 200, TRUE, "Payment processed successfully",
                        updated[id].status, id)
             /\ log' = [log EXCEPT ![r] = Settled(@, "ok", StoreReply(ok))]
     ELSE /\ Catch(r, "Prisma error", Settled(log[r], "threw", StoreReply(ok)))
          /\ UNCHANGED payments
  /\ UNCHANGED <<now, lookup>>

\* faulty variant: a failure of the catch block's update is not swallowed, and the
\* handler ends without a response
CatchUpdateReturn_Rethrows(r, ok) ==
  /\ pc[r] = "catchUpdate"
  /\ IF ok
     THEN /\ payments' = UpdateTerminal(loc[r].payment, "failed",
                                        JSONstringify(Obj1("error", loc[r].error)),
                                        loc[r].completedAt)
          /\ log' = [log EXCEPT ![r] = Settled(@, "ok", StoreReply(ok))]
          /\ Respond(r, 500, FALSE, "Payment processing failed", "", NoPayment)
     ELSE /\ log' = [log EXCEPT ![r] = Settled(@, "threw", StoreReply(ok))]
          /\ pc' = [pc EXCEPT ![r] = "done"]
          /\ loc' = [loc EXCEPT ![r] = InitLoc]
          /\ UNCHANGED <<payments, http>>
  /\ UNCHANGED <<now, lookup>>

\* the update of the catch block settled (a failure is logged and
\* swallowed); the 500 response is sent
CatchUpdateReturn(r, ok) ==
  /\ pc[r] = "catchUpdate"
  /\ IF ok
     THEN /\ payments' = UpdateTerminal(loc[r].payment, "failed",
                                        JSONstringify(Obj1("error", loc[r].error)),
                                        loc[r].completedAt)
          /\ log' = [log EXCEPT ![r] = Settled(@, "ok", StoreReply(ok))]
     ELSE /\ log' = [log EXCEPT ![r] = Settled(@, "threw", StoreReply(ok))]
          /\ UNCHANGED payments
  /\ Respond(r, 500, FALSE, "Payment processing failed", "", NoPayment)
  /\ UNCHANGED <<now, lookup>>

(* ---------------------- GET /payment/:transactionId -------------------- *)

\* the transaction ids looked up: every id a record can carry by MaxTime
LookupIds == {<<"MSH-", t>> : t \in Delay..MaxTime}

\* prisma.payment.findUnique({where: {transactionId}}): the rows found
findUnique(transactionId) ==
  {i \in DOMAIN payments : payments[i].transactionId = transactionId}

\* the payment object of the 200 response
LookupBody(p) ==
  [ id |-> ToString(p.id),
    transactionId |-> p.transactionId,
    nameEnquiryTransactionId |-> p.nameEnquiryTransactionId,
    destBank |-> p.destBank,
    accountNumber |-> p.accountNumber,
    accountName |-> p.accountName,
    amount |-> p.amount,
    status |-> p.status,
    completedAt |-> p.completedAt,
    response |-> Decoded(p.response),
    verificationResponse |-> Decoded(p.verificationResponse) ]

\* the lookup is received and findUnique is issued
LookupReceive(transactionId) ==
  /\ lookup.pc # "findUnique"
  /\ lookup' = [NoLookup EXCEPT !.pc = "findUnique", !.transactionId = transactionId]
  /\ UNCHANGED <<now, pc, loc, payments, http, log>>

\* findUnique settled: it read the table as it is now, or threw; the
\* response is sent
LookupReturn(ok) ==
  /\ lookup.pc = "findUnique"
  /\ LET found == findUnique(lookup.transactionId)
     IN lookup' =
          IF ~ok
          THEN [lookup EXCEPT !.pc = "done", !.code = 500, !.threw = TRUE,
                              !.message = "Failed to fetch payment"]
          ELSE IF found = {}
          THEN [lookup EXCEPT !.pc = "done", !.code = 404,
                              !.message = "Payment not found"]
          ELSE [lookup EXCEPT !.pc = "done", !.code = 200, !.success = TRUE,
                              !.payment = <<LookupBody(payments[CHOOSE i \in found : TRUE])>>]
  /\ UNCHANGED <<now, pc, loc, payments, http, log>>

\* a millisecond passes
Tick ==
  /\ now < MaxTime
  /\ now' = now + 1
  /\ UNCHANGED <<pc, loc, payments, http, log, lookup>>

Next ==
  \/ Tick
  \/ \E r \in Reqs, body \in Bodies : Receive(r, body)
  \/ \E r \in Reqs : AfterDelay(r)
  \/ \E r \in Reqs, reply \in AuthReplies : AuthReturn(r, reply)
  \/ \E r \in Reqs, reply \in NameEnquiryReplies : NameEnquiryReturn(r, reply)
  \/ \E r \in Reqs, ok \in BOOLEAN : CreateReturn(r, ok)
  \/ \E r \in Reqs, ok \in BOOLEAN : ProcessingReturn(r, ok)
  \/ \E r \in Reqs, reply \in CollectReplies : CollectReturn(r, reply)
  \/ \E r \in Reqs, ok \in BOOLEAN : FinalUpdateReturn(r, ok)
  \/ \E r \in Reqs, ok \in BOOLEAN : CatchUpdateReturn(r, ok)
  \/ \E transactionId \in LookupIds : LookupReceive(transactionId)
  \/ \E ok \in BOOLEAN : LookupReturn(ok)

Spec == Init /\ [][Next]_vars

\* every awaited call of a request settles and its timer fires: time
\* passes, and each continuation of the handler runs once it can
Fairness ==
  /\ WF_vars(Tick)
  /\ \A r \in Reqs :
       /\ WF_vars(AfterDelay(r))
       /\ WF_vars(\E reply \in AuthReplies : AuthReturn(r, reply))
       /\ WF_vars(\E reply \in NameEnquiryReplies : NameEnquiryReturn(r, reply))
       /\ WF_vars(\E ok \in BOOLEAN : CreateReturn(r, ok))
       /\ WF_vars(\E ok \in BOOLEAN : ProcessingReturn(r, ok))
       /\ WF_vars(\E reply \in CollectReplies : CollectReturn(r, reply))
       /\ WF_vars(\E ok \in BOOLEAN : FinalUpdateReturn(r, ok))
       /\ WF_vars(\E ok \in BOOLEAN : CatchUpdateReturn(r, ok))

FairSpec == Spec /\ Fairness

(* ------------------------- reading the history ------------------------- *)

Terminal == {"completed", "failed"}

Responded(r) == http[r].code # 0

RecordsOf(r) == {i \in DOMAIN payments : payments[i].owner = r}

\* the entries of request r's log for the call op
Entries(r, op) == {i \in DOMAIN log[r] : log[r][i].op = op}

IssuedCount(r, op) == Cardinality(Entries(r, op))

Threw(r, op) == \E i \in Entries(r, op) : log[r][i].out = "threw"

Ok(r, op) == \E i \in Entries(r, op) : log[r][i].out = "ok"

\* the reply that settled request r's call op
ReplyOf(r, op) == log[r][CHOOSE i \in Entries(r, op) : TRUE].reply

\* the transaction id request r passed to its call op
IdOf(r, op) == log[r][CHOOSE i \in Entries(r, op) : TRUE].id

Settling(r, op) == \E i \in Entries(r, op) : log[r][i].out # "inflight"

\* the one record request r created
RecordOf(r) == payments[CHOOSE i \in RecordsOf(r) : TRUE]

TypeOK ==
  /\ now \in 0..MaxTime
  /\ \A r \in Reqs : pc[r] \in {"idle", "delay", "authenticate", "nameEnquiry", "create",
                                "toProcessing", "collect", "finalUpdate", "catchUpdate", "done"}
  /\ \A r \in Reqs : http[r].sent <= 1

(* ------------------------------- C1 ------------------------------------ *)

\* the status steps of the chain pending -> processing -> completed | failed
ChainSteps ==
  { <<"pending", "processing">>, <<"processing", "completed">>,
    <<"processing", "failed">> }

\* every change of a record's status in this step is one of steps, a record
\* is created as pending, and no record disappears
StatusMovesBy(steps) ==
  /\ Len(payments') >= Len(payments)
  /\ \A i \in DOMAIN payments' :
       IF i \in DOMAIN payments
       THEN \/ payments'[i].status = payments[i].status
            \/ <<payments[i].status, payments'[i].status>> \in steps
       ELSE payments'[i].status = "pending"

\* C1 as stated: a record's status changes only along pending -> processing
\* -> completed or pending -> processing -> failed; nothing skips the chain.
C1_ChainOnly == [][StatusMovesBy(ChainSteps)]_vars

\* C1 as amended: a record's status changes only forward, along pending ->
\* processing -> completed | failed, or from pending straight to failed (the
\* error handler, when the update to processing threw); a completed or failed
\* record never changes status again.
C1_StatusForward == [][StatusMovesBy(ChainSteps \cup {<<"pending", "failed">>})]_vars

\* a record failed by the error handler although collect was never issued
\* for it: it went from pending to failed
C1_Witness ==
  \E i \in DOMAIN payments :
    /\ payments[i].status = "failed"
    /\ Threw(payments[i].owner, "toProcessing")
    /\ Ok(payments[i].owner, "catchUpdate")

(* ------------------------------- C2 ------------------------------------ *)

\* name-enquiry returned an account name to request r
Named(r) ==
  /\ Ok(r, "nameEnquiry")
  /\ accountNameOf(ReplyOf(r, "nameEnquiry").body) # Undef

\* C2 as stated: a request whose name-enquiry succeeded has created exactly
\* one record, and when its response is sent that record is completed or
\* failed.
C2_OneTerminalRecord ==
  \A r \in Reqs :
    (Responded(r) /\ Ok(r, "nameEnquiry")) =>
      /\ Cardinality(RecordsOf(r)) = 1
      /\ RecordOf(r).status \in Terminal

\* C2 as amended: a request creates at most one record, and only after
\* name-enquiry returned an account name: exactly one when the create
\* succeeds, none when it throws.  When the response is sent the record is
\* completed or failed, unless the error handler's own update threw: then
\* the response is 500 and the record is left pending or processing.
C2_OneRecordTerminalUnlessStoreFails ==
  \A r \in Reqs :
    /\ Cardinality(RecordsOf(r)) <= 1
    /\ RecordsOf(r) # {} <=> Ok(r, "create")
    /\ Settling(r, "create") => Named(r)
    /\ (Responded(r) /\ Named(r)) =>
         /\ Ok(r, "create") \/ Threw(r, "create")
         /\ Threw(r, "create") => http[r].code = 500
         /\ Ok(r, "create") =>
              IF Threw(r, "catchUpdate")
              THEN /\ http[r].code = 500
                   /\ RecordOf(r).status \in {"pending", "processing"}
              ELSE RecordOf(r).status \in Terminal
    /\ http[r].code = 200 => (Named(r) /\ Ok(r, "create"))

\* two answered requests, each with its own record in a terminal status
C2_Witness ==
  \E r, q \in Reqs :
    /\ r # q
    /\ http[r].code = 200 /\ http[q].code = 500
    /\ RecordsOf(r) # {} /\ RecordsOf(q) # {}
    /\ RecordOf(r).status = "completed"
    /\ RecordOf(q).status = "failed"

(* ------------------------------- C3 ------------------------------------ *)

\* C3 as stated (its count): once the request that created a record is
\* answered, the record has received exactly one terminal update.
C3_ExactlyOneTerminalUpdate ==
  \A r \in Reqs :
    Responded(r) => \A i \in RecordsOf(r) : payments[i].terminalUpdates = 1

\* C3 as amended: a record receives at most one terminal update, and exactly
\* one by the time its request is answered unless the error handler's update
\* threw.  Once a record is completed or failed no step changes any of its
\* fields (a completed record is never overwritten to failed), and no step
\* deletes a record.
C3_TerminalIsFinal ==
  [][\A i \in DOMAIN payments :
       /\ i \in DOMAIN payments'
       /\ payments[i].status \in Terminal => payments'[i] = payments[i]
       /\ payments'[i].terminalUpdates <= 1
       /\ payments'[i].status \in Terminal <=> payments'[i].terminalUpdates = 1
       /\ payments'[i].owner = payments[i].owner
       /\ (Responded(payments[i].owner)' /\ ~Threw(payments[i].owner, "catchUpdate")')
            => payments'[i].terminalUpdates = 1]_vars

\* a completed record, and a later record that the error handler failed
C3_Witness ==
  \E i, j \in DOMAIN payments :
    /\ i < j
    /\ payments[i].status = "completed"
    /\ payments[j].status = "failed"
    /\ Ok(payments[j].owner, "catchUpdate")
    /\ pc[payments[i].owner] = "done"

(* ------------------------------- C4 ------------------------------------ *)

\* C4: a request whose accountNumber, amount or network is missing is
\* answered 400 in the step that receives it, and that step issues no call
\* and changes no record; a request answered this way never did anything
\* else.  (A request that leaves validation for the timer has all three.)
C4_MissingFieldIs400 ==
  [][\A r \in Reqs :
       /\ (pc[r] = "idle" /\ pc'[r] # "idle") =>
            \/ /\ pc'[r] = "delay"
               /\ loc'[r].accountNumber # Undef
               /\ loc'[r].amount # Undef
               /\ loc'[r].network # UndefNetwork
            \/ /\ pc'[r] = "done"
               /\ http'[r].code = 400
               /\ http'[r].message = "Missing required fields"
               /\ payments' = payments
               /\ log' = log
       /\ http'[r].message = "Missing required fields" =>
            /\ http'[r].code = 400 /\ http'[r].sent = 1
            /\ log'[r] = <<>>
            /\ {i \in DOMAIN payments' : payments'[i].owner = r} = {}]_vars

\* a request rejected by the validation while the store holds a record
C4_Witness ==
  \E r \in Reqs :
    /\ http[r].code = 400
    /\ http[r].message = "Missing required fields"
    /\ payments # <<>>

(* ------------------------------- C5 ------------------------------------ *)

\* the bank code each network value of the requests must resolve to, by the
\* configuration Env: none for an unknown name, an unset code, or a number
C5_Expected(network) ==
  IF network = <<" ", "m", "t", "n", " ">> THEN "300591" ELSE Undef

\* C5: a request whose network does not resolve to a configured bank code
\* is answered 400 in the step that resolves it, and that step issues no
\* call and changes no record; a network that resolves goes on to
\* authenticate with its bank code.
C5_UnresolvedNetworkIs400 ==
  [][\A r \in Reqs :
       (pc[r] = "delay" /\ pc'[r] # "delay") =>
          IF C5_Expected(loc[r].network) = Undef
          THEN /\ pc'[r] = "done"
               /\ http'[r].code = 400
               /\ http'[r].message = "Invalid network"
               /\ payments' = payments
               /\ log'[r] = <<>>
          ELSE /\ pc'[r] = "authenticate"
               /\ loc'[r].bankCode = C5_Expected(loc[r].network)]_vars

\* a request rejected for its network while the store holds a record
C5_Witness ==
  \E r \in Reqs :
    /\ http[r].code = 400
    /\ http[r].message = "Invalid network"
    /\ log[r] = <<>>
    /\ payments # <<>>

(* ------------------------------- C6 ------------------------------------ *)

\* the authenticate call of request r failed: the call errored, or its
\* response has none of the token fields
C6_AuthFailed(r) ==
  /\ Settling(r, "authenticate")
  /\ LET reply == ReplyOf(r, "authenticate")
     IN \/ reply.err
        \/ \A i \in DOMAIN TokenFields : TokenFields[i] \notin DOMAIN reply.body

\* C6: when authenticate fails the request is answered 500, has created no
\* record, and has issued neither name-enquiry nor collect.
C6_AuthFailureIs500 ==
  \A r \in Reqs :
    C6_AuthFailed(r) =>
      /\ pc[r] = "done"
      /\ http[r].code = 500 /\ http[r].sent = 1
      /\ RecordsOf(r) = {}
      /\ IssuedCount(r, "nameEnquiry") = 0
      /\ IssuedCount(r, "create") = 0
      /\ IssuedCount(r, "collect") = 0

\* one request whose authenticate call errored and one whose response had
\* no token field
C6_Witness ==
  \E r, q \in Reqs :
    /\ C6_AuthFailed(r) /\ ReplyOf(r, "authenticate").err
    /\ C6_AuthFailed(q) /\ ~ReplyOf(q, "authenticate").err
    /\ http[r].code = 500 /\ http[q].code = 500

(* ------------------------------- C7 ------------------------------------ *)

\* the name-enquiry call of request r failed, or returned a body with no
\* account name in any of the probed fields
C7_NoAccountName(r) ==
  /\ Settling(r, "nameEnquiry")
  /\ LET reply == ReplyOf(r, "nameEnquiry")
     IN \/ reply.err
        \/ \A i \in DOMAIN AccountNameFields :
             ~Truthy(Get(reply.body, AccountNameFields[i]))

\* C7: when name-enquiry fails or yields no account name the request is
\* answered 500, no record is persisted for it, and collect is never called.
C7_NameEnquiryFailureIs500 ==
  \A r \in Reqs :
    C7_NoAccountName(r) =>
      /\ pc[r] = "done"
      /\ http[r].code = 500 /\ http[r].sent = 1
      /\ RecordsOf(r) = {}
      /\ IssuedCount(r, "create") = 0
      /\ IssuedCount(r, "collect") = 0

\* one request whose name-enquiry errored and one whose name-enquiry
\* returned a body without a name
C7_Witness ==
  \E r, q \in Reqs :
    /\ C7_NoAccountName(r) /\ ReplyOf(r, "nameEnquiry").err
    /\ C7_NoAccountName(q) /\ ~ReplyOf(q, "nameEnquiry").err
    /\ http[r].code = 500 /\ http[q].code = 500

(* ------------------------------- C8 ------------------------------------ *)

\* the status code of a collect response: message.status, or data.status
\* when message.status is absent or empty
C8_StatusCode(body) ==
  IF Truthy(Get(body, "message.status")) THEN Get(body, "message.status")
  ELSE Get(body, "data.status")

\* the collect call of request r returned a success code
C8_Success(r) == C8_StatusCode(ReplyOf(r, "collect").body) \in {"000", "0"}

\* C8 as stated: when collect returned, the record is finalized as completed
\* and the response is 200 with status completed exactly when the status
\* code is "000" or "0"; for any other value the record is finalized as
\* failed.
C8_SuccessCodeCompletes ==
  \A r \in Reqs :
    (Responded(r) /\ Ok(r, "collect")) =>
      IF C8_Success(r)
      THEN /\ RecordOf(r).status = "completed"
           /\ http[r].code = 200 /\ http[r].status = "completed"
      ELSE RecordOf(r).status = "failed"

\* C8 as amended: when collect returned and the final update of the record
\* succeeds, the record is completed and the response is 200 with status
\* completed exactly when the status code is "000" or "0", and the record is
\* failed for any other value; the record keeps the collect response.  When
\* the final update throws, the response is 500 and the record is failed by
\* the error handler, or left processing if that update throws too.
C8_SuccessCodeCompletesIfStored ==
  \A r \in Reqs :
    /\ pc[r] = "finalUpdate" => RecordOf(r).status = "processing"
    /\ (Responded(r) /\ Ok(r, "collect")) =>
         IF Ok(r, "finalUpdate")
         THEN /\ http[r].code = 200 /\ http[r].success
              /\ RecordOf(r).status = IF C8_Success(r) THEN "completed" ELSE "failed"
              /\ http[r].status = RecordOf(r).status
              /\ RecordOf(r).response = JSONstringify(ReplyOf(r, "collect").body)
         ELSE /\ Threw(r, "finalUpdate")
              /\ http[r].code = 500
              /\ RecordOf(r).status =
                   IF Ok(r, "catchUpdate") THEN "failed" ELSE "processing"

\* one request completed on the code "0" found in data.status, and one
\* failed although data.status is "000", because message.status is "01"
C8_Witness ==
  \E r, q \in Reqs :
    /\ http[r].code = 200 /\ http[q].code = 200
    /\ Get(ReplyOf(r, "collect").body, "data.status") = "0"
    /\ RecordOf(r).status = "completed"
    /\ Get(ReplyOf(q, "collect").body, "message.status") = "01"
    /\ RecordOf(q).status = "failed"

(* ------------------------------- C9 ------------------------------------ *)

\* C9 as stated: when collect returned a status code that is not a success
\* code, the record is failed and the response is 200 with success true and
\* status failed; the status of any 200 response is the record's status.
C9_FailedCollectIs200 ==
  \A r \in Reqs :
    /\ (Responded(r) /\ Ok(r, "collect") /\ ~C8_Success(r)) =>
         /\ RecordOf(r).status = "failed"
         /\ http[r].code = 200 /\ http[r].success
         /\ http[r].status = "failed"
    /\ http[r].code = 200 =>
         /\ RecordsOf(r) # {}
         /\ http[r].status = RecordOf(r).status

\* C9 as amended: when collect returned a status code that is not a success
\* code and the final update of the record succeeds, the record is failed
\* and the response is 200 with success true and status failed (when the
\* final update throws the response is 500); the status of any 200 response
\* is the status of that request's record, then and ever after.
C9_FailedCollectIs200IfStored ==
  \A r \in Reqs :
    /\ (Responded(r) /\ Ok(r, "collect") /\ ~C8_Success(r)) =>
         IF Ok(r, "finalUpdate")
         THEN /\ RecordOf(r).status = "failed"
              /\ http[r].code = 200 /\ http[r].success /\ http[r].sent = 1
              /\ http[r].status = "failed"
              /\ http[r].paymentId = RecordOf(r).id
         ELSE http[r].code = 500 /\ ~http[r].success
    /\ http[r].code = 200 =>
         /\ Ok(r, "collect") /\ Ok(r, "finalUpdate")
         /\ RecordsOf(r) # {}
         /\ http[r].status = RecordOf(r).status

\* a request answered 200 with status failed, its collect having returned
\* the code "01", after another request was answered 200 with status
\* completed
C9_Witness ==
  \E r, q \in Reqs :
    /\ q < r
    /\ http[q].code = 200 /\ http[q].status = "completed"
    /\ http[r].code = 200 /\ http[r].success /\ http[r].status = "failed"
    /\ C8_StatusCode(ReplyOf(r, "collect").body) = "01"
    /\ RecordOf(r).status = "failed"

(* ------------------------------- C10 ----------------------------------- *)

\* a step of request r threw after its record was created
C10_ThrewAfterCreate(r) ==
  Threw(r, "toProcessing") \/ Threw(r, "collect") \/ Threw(r, "finalUpdate")

\* the message of the error request r caught
C10_ErrorMessage(r) ==
  IF Threw(r, "collect") THEN "Collection error" ELSE "Prisma error"

\* C10: when collect throws, or another step throws after the record was
\* created, the handler issues one update of that record to failed with the
\* error message and a completion timestamp, and answers 500; when that
\* update fails the record is left as it was and the answer is still 500.
\* The handler issues that update in no other case.
C10_CatchMarksFailed ==
  \A r \in Reqs :
    /\ IssuedCount(r, "catchUpdate") = IF C10_ThrewAfterCreate(r) THEN 1 ELSE 0
    /\ C10_ThrewAfterCreate(r) =>
         /\ RecordsOf(r) # {}
         /\ pc[r] \in {"catchUpdate", "done"}
         /\ pc[r] = "catchUpdate" =>
              /\ ~Responded(r)
              /\ loc[r].payment = RecordOf(r).id
              /\ loc[r].error = C10_ErrorMessage(r)
              /\ loc[r].completedAt # NoDate
              /\ RecordOf(r).status \in {"pending", "processing"}
         /\ pc[r] = "done" =>
              /\ http[r].code = 500 /\ ~http[r].success /\ http[r].sent = 1
              /\ Ok(r, "catchUpdate") \/ Threw(r, "catchUpdate")
         /\ Ok(r, "catchUpdate") =>
              /\ RecordOf(r).status = "failed"
              /\ RecordOf(r).response =
                   JSONstringify(Obj1("error", C10_ErrorMessage(r)))
              /\ RecordOf(r).completedAt # NoDate
         /\ Threw(r, "catchUpdate") =>
              /\ RecordOf(r).status \in {"pending", "processing"}
              /\ RecordOf(r).response = NoText
              /\ RecordOf(r).completedAt = NoDate

\* a request whose collect threw and whose record the handler marked
\* failed, and a request whose final update threw and whose update to
\* failed threw as well; both answered 500
C10_Witness ==
  \E r, q \in Reqs :
    /\ Threw(r, "collect") /\ Ok(r, "catchUpdate")
    /\ RecordOf(r).status = "failed"
    /\ Threw(q, "finalUpdate") /\ Threw(q, "catchUpdate")
    /\ RecordOf(q).status = "processing"
    /\ http[r].code = 500 /\ http[q].code = 500

(* ------------------------------- C11 ----------------------------------- *)

\* C11: no two payment records have the same transactionId, in any state
\* and under any interleaving of the requests.
C11_TransactionIdUnique ==
  \A i, j \in DOMAIN payments :
    i # j => payments[i].transactionId # payments[j].transactionId

\* two records in the store, and the request that created the second one
\* was in flight together with the request that created the first
C11_Witness ==
  \E i, j \in DOMAIN payments :
    /\ i < j
    /\ payments[i].owner # payments[j].owner
    /\ payments[i].status = "pending"
    /\ payments[j].status = "pending"

(* ------------------------------- C12 ----------------------------------- *)

\* the collection transaction id request r generated, as long as the model
\* keeps it: in the handler's locals, or in the log of its create call
C12_CollectionId(r) ==
  IF loc[r].collectionTransactionID # NoId THEN loc[r].collectionTransactionID
  ELSE IF Entries(r, "create") # {} THEN IdOf(r, "create")
  ELSE NoId

\* C12: the collection transaction ids generated for two distinct requests
\* differ.
C12_CollectionIdsDiffer ==
  \A r, q \in Reqs :
    (r # q /\ C12_CollectionId(r) # NoId /\ C12_CollectionId(q) # NoId)
      => C12_CollectionId(r) # C12_CollectionId(q)

(* ------------------------------- C13 ----------------------------------- *)

\* C13: every record has, from its creation, the account name and the
\* serialized result of its request's name-enquiry; its response and
\* completedAt are set exactly when its status is completed or failed, and
\* both are unset while it is pending or processing.
C13_FieldsFollowStatus ==
  \A i \in DOMAIN payments :
    LET p == payments[i]
        enquiry == ReplyOf(p.owner, "nameEnquiry").body
    IN /\ Ok(p.owner, "nameEnquiry")
       /\ Truthy(p.accountName)
       /\ p.accountName = accountNameOf(enquiry)
       /\ p.verificationResponse # NoText
       /\ p.verificationResponse = JSONstringify(enquiry)
       /\ p.status \in Terminal <=> p.response # NoText
       /\ p.status \in Terminal <=> p.completedAt # NoDate
       /\ p.status \in {"pending", "processing", "completed", "failed"}

\* a pending record, and an earlier record that has been finalized
C13_Witness ==
  \E i, j \in DOMAIN payments :
    /\ i < j
    /\ payments[i].status \in Terminal
    /\ payments[i].completedAt # NoDate
    /\ payments[j].status = "pending"
    /\ payments[j].accountName = "KOFI"

(* ------------------------------- C14 ----------------------------------- *)

\* the position of request r's call op in its log
C14_Position(r, op) == CHOOSE i \in Entries(r, op) : TRUE

\* the calls that precede collect, in the order of the handler
C14_BeforeCollect == <<"authenticate", "nameEnquiry", "create", "toProcessing">>

\* C14: a request issues collect only after its authenticate returned a
\* token, its name-enquiry returned an account name, and its record was
\* created and advanced to processing, in that order; at no time are two
\* calls of one request in flight.
C14_StepsInOrder ==
  \A r \in Reqs :
    /\ \A i \in DOMAIN log[r] : log[r][i].out = "inflight" => i = Len(log[r])
    /\ Entries(r, "collect") # {} =>
         /\ \A k \in DOMAIN C14_BeforeCollect :
              /\ IssuedCount(r, C14_BeforeCollect[k]) = 1
              /\ Ok(r, C14_BeforeCollect[k])
              /\ C14_Position(r, C14_BeforeCollect[k]) = k
         /\ C14_Position(r, "collect") = Len(C14_BeforeCollect) + 1
         /\ Truthy(authenticate(ReplyOf(r, "authenticate")).value)
         /\ Named(r)
         /\ RecordsOf(r) # {}
         /\ RecordOf(r).transactionId = IdOf(r, "collect")
    /\ pc[r] = "collect" => RecordOf(r).status = "processing"

\* two requests with collect in flight, each after its four earlier calls
C14_Witness ==
  \E r, q \in Reqs :
    /\ r # q
    /\ pc[r] = "collect" /\ pc[q] = "collect"
    /\ Len(log[r]) = 5 /\ Len(log[q]) = 5
    /\ log[r][5].out = "inflight" /\ log[q][5].out = "inflight"

(* ------------------------------- C15 ----------------------------------- *)

C15_Upstream == {"authenticate", "nameEnquiry", "collect"}

\* an upstream call of request r failed
C15_Failed(r) == \E op \in C15_Upstream : Threw(r, op)

\* the upstream calls request r has issued so far
C15_UpstreamCalls(r) == {i \in DOMAIN log[r] : log[r][i].op \in C15_Upstream}

\* C15: a request issues authenticate, name-enquiry and collect at most
\* once each; once one of them failed the request issues no upstream call
\* any more, and it ends with an error response.
C15_SingleShot ==
  /\ [](\A r \in Reqs :
          /\ \A op \in C15_Upstream : IssuedCount(r, op) <= 1
          /\ C15_Failed(r) =>
               /\ pc[r] \in {"catchUpdate", "done"}
               /\ \A i, j \in C15_UpstreamCalls(r) :
                    log[r][i].out = "threw" => j <= i
               /\ pc[r] = "done" => (http[r].code = 500 /\ http[r].sent = 1))
  /\ [][\A r \in Reqs :
          C15_Failed(r) => C15_UpstreamCalls(r)' = C15_UpstreamCalls(r)]_vars

\* one request ended by a failed collect after one call of each kind, and
\* one ended by a failed authenticate, its only call
C15_Witness ==
  \E r, q \in Reqs :
    /\ Threw(r, "collect") /\ Cardinality(C15_UpstreamCalls(r)) = 3
    /\ Threw(q, "authenticate") /\ Len(log[q]) = 1
    /\ http[r].code = 500 /\ http[q].code = 500

(* ------------------------------- C16 ----------------------------------- *)

\* what a lookup must report for the record p: its columns, the id as a
\* string, and in place of the two JSON columns the values they were
\* written from (null for a response not yet written)
C16_Expected(p) ==
  [ id |-> ToString(p.id),
    transactionId |-> p.transactionId,
    nameEnquiryTransactionId |-> p.nameEnquiryTransactionId,
    destBank |-> p.destBank,
    accountNumber |-> p.accountNumber,
    accountName |-> p.accountName,
    amount |-> p.amount,
    status |-> p.status,
    completedAt |-> p.completedAt,
    response |->
      IF p.status \notin Terminal THEN NullBody
      ELSE IF Ok(p.owner, "finalUpdate") THEN ReplyOf(p.owner, "collect").body
      ELSE Obj1("error", C10_ErrorMessage(p.owner)),
    verificationResponse |-> ReplyOf(p.owner, "nameEnquiry").body ]

\* the step answers the lookup with 404 if no record has the id looked up,
\* and else with 200 and the fields of the record that has it
C16_Answered ==
  LET found == {i \in DOMAIN payments :
                  payments[i].transactionId = lookup.transactionId}
  IN IF found = {}
     THEN lookup'.code = 404 /\ ~lookup'.success /\ lookup'.payment = <<>>
     ELSE /\ lookup'.code = 200 /\ lookup'.success
          /\ \E i \in found : lookup'.payment = <<C16_Expected(payments[i])>>

\* C16 as stated: a lookup is answered 404 exactly when no record has the
\* transactionId at the time of the lookup, and otherwise 200 with that
\* record's fields, response and verificationResponse decoded; no step of a
\* lookup changes a record.
C16_LookupIs404Or200 ==
  [][/\ lookup' # lookup => payments' = payments
     /\ (lookup.pc = "findUnique" /\ lookup'.pc = "done") => C16_Answered]_vars

\* C16 as amended: a lookup whose read of the store succeeds is answered
\* 404 exactly when no record has the transactionId at the time of the
\* read, and otherwise 200 with that record's fields, response and
\* verificationResponse decoded; a lookup whose read throws is answered
\* 500.  No step of a lookup changes a record or a request in flight.
C16_LookupReadsOnly ==
  [][/\ lookup' # lookup => UNCHANGED <<payments, pc, loc, http, log>>
     /\ (lookup.pc = "findUnique" /\ lookup'.pc = "done") =>
          IF lookup'.threw
          THEN lookup'.code = 500 /\ ~lookup'.success /\ lookup'.payment = <<>>
          ELSE C16_Answered]_vars

\* a lookup answered with the decoded collect response of a completed
\* record while another request has its collect in flight
C16_Witness ==
  /\ lookup.code = 200
  /\ lookup.payment[1].status = "completed"
  /\ lookup.payment[1].response = Obj1("message.status", "000")
  /\ \E r \in Reqs : pc[r] = "collect"

(* ------------------------------- C17 ----------------------------------- *)

\* C17: the two identifiers a request generates differ (the clock never
\* goes back, and the timer separates the two readings of it): every
\* record has nameEnquiryTransactionId different from transactionId.
C17_TwoIdsDiffer ==
  /\ \A i \in DOMAIN payments :
       payments[i].nameEnquiryTransactionId # payments[i].transactionId
  /\ \A r \in Reqs :
       loc[r].collectionTransactionID # NoId =>
         loc[r].nameEnquiryTransactionID # loc[r].collectionTransactionID

\* a record whose second identifier was generated as soon as the timer
\* allowed, Delay milliseconds after the first
C17_Witness ==
  \E i \in DOMAIN payments :
    /\ payments[i].nameEnquiryTransactionId # NoId
    /\ payments[i].transactionId[2] = payments[i].nameEnquiryTransactionId[2] + Delay

(* ------------------------------- C18 ----------------------------------- *)

\* requests r and q both issued a create with the same transaction id
C18_Collide(r, q) ==
  /\ r # q
  /\ Entries(r, "create") # {} /\ Entries(q, "create") # {}
  /\ IdOf(r, "create") = IdOf(q, "create")

\* C18: of two requests that generated the same collection transaction id
\* at most one creates a record and submits collect with that id; the one
\* whose create is rejected is answered 500, never issues collect or any
\* update, and its rejection leaves every record as it was.
C18_SecondCreateRejected ==
  /\ [](\A r, q \in Reqs :
          C18_Collide(r, q) =>
            /\ ~(Ok(r, "create") /\ Ok(q, "create"))
            /\ Cardinality(RecordsOf(r) \cup RecordsOf(q)) <= 1
            /\ IssuedCount(r, "collect") + IssuedCount(q, "collect") <= 1
            /\ (Ok(r, "create") /\ Settling(q, "create")) =>
                 /\ Threw(q, "create")
                 /\ pc[q] = "done"
                 /\ http[q].code = 500 /\ http[q].sent = 1
                 /\ RecordsOf(q) = {}
                 /\ \A op \in {"toProcessing", "collect", "finalUpdate", "catchUpdate"} :
                      IssuedCount(q, op) = 0)
  /\ [][\A q \in Reqs :
          (Threw(q, "create")' /\ ~Threw(q, "create")) => payments' = payments]_vars

\* two requests with the same collection transaction id: the first has
\* its record completed by its collect, the second was rejected with 500
C18_Witness ==
  \E r, q \in Reqs :
    /\ C18_Collide(r, q)
    /\ Ok(r, "create") /\ Ok(r, "collect")
    /\ RecordOf(r).status = "completed"
    /\ Threw(q, "create")
    /\ http[q].code = 500

(* ------------------------------- C19 ----------------------------------- *)

\* the step changes the status, response or completedAt of record i
C19_Changes(i) ==
  \/ payments'[i].status # payments[i].status
  \/ payments'[i].response # payments[i].response
  \/ payments'[i].completedAt # payments[i].completedAt

\* C19: every update a request issues targets the record this request
\* created: a step that changes the status, response or completedAt of a
\* record is the return of an update of the request that created it, and
\* no other request moves in that step.
C19_UpdatesOwnRecordOnly ==
  /\ [](\A r \in Reqs :
          loc[r].payment # NoPayment =>
            /\ loc[r].payment \in DOMAIN payments
            /\ payments[loc[r].payment].owner = r)
  /\ [][\A i \in DOMAIN payments :
          C19_Changes(i) =>
            LET r == payments[i].owner
            IN /\ pc[r] \in {"toProcessing", "finalUpdate", "catchUpdate"}
               /\ pc'[r] # pc[r]
               /\ loc[r].payment = i
               /\ \A q \in Reqs \ {r} :
                    pc'[q] = pc[q] /\ loc'[q] = loc[q] /\ log'[q] = log[q]
               /\ \A j \in DOMAIN payments \ {i} : payments'[j] = payments[j]]_vars

\* two records of two requests: one was failed by its request's error
\* handler while the other is still processing, its collect in flight
C19_Witness ==
  \E i, j \in DOMAIN payments :
    /\ payments[i].owner # payments[j].owner
    /\ payments[i].status = "failed"
    /\ Ok(payments[i].owner, "catchUpdate")
    /\ payments[j].status = "processing"
    /\ pc[payments[j].owner] = "collect"

(* ------------------------------- C20 ----------------------------------- *)

\* C20: a record is completed only if the collect call issued with its
\* transactionId returned a response whose status code is "000" or "0";
\* whatever upstream call or store operation fails, no record is completed
\* without such a response.
C20_CompletedOnlyOnSuccess ==
  \A i \in DOMAIN payments :
    payments[i].status = "completed" =>
      LET r == payments[i].owner
      IN /\ IssuedCount(r, "collect") = 1
         /\ Ok(r, "collect")
         /\ IdOf(r, "collect") = payments[i].transactionId
         /\ ~ReplyOf(r, "collect").err
         /\ C8_StatusCode(ReplyOf(r, "collect").body) \in {"000", "0"}
         /\ \A op \in {"authenticate", "nameEnquiry", "create", "toProcessing",
                       "collect", "finalUpdate"} : ~Threw(r, op)
         /\ IssuedCount(r, "catchUpdate") = 0

\* a completed record beside a record whose collect returned "01", and
\* whose final update was then written as failed
C20_Witness ==
  \E i, j \in DOMAIN payments :
    /\ payments[i].status = "completed"
    /\ C8_StatusCode(ReplyOf(payments[i].owner, "collect").body) = "000"
    /\ payments[j].status = "failed"
    /\ Ok(payments[j].owner, "finalUpdate")
    /\ C8_StatusCode(ReplyOf(payments[j].owner, "collect").body) = "01"

(* ------------------------ authenticate alone --------------------------- *)
\* The token extraction of authenticate on its own: one request at a time,
\* run up to the return of its authenticate call, over response bodies that
\* carry up to MaxFields of the probed fields.

MaxFields == 2

\* the values a probed field carries: an empty string, or a token
AuthProbeValues == {"", "a", "b"}

AuthProbeBodies ==
  UNION { [S -> AuthProbeValues] :
            S \in {T \in SUBSET {TokenFields[i] : i \in DOMAIN TokenFields} :
                     Cardinality(T) <= MaxFields} }

AuthProbeReplies == AuthReplies \cup {Reply(body) : body \in AuthProbeBodies}

\* no other request is being handled
Alone(r) == \A q \in Reqs \ {r} : pc[q] = "idle"

\* a request arrives while no other is being handled
ReceiveAlone(r, body) == Alone(r) /\ Receive(r, body)

AuthNext ==
  \/ Tick
  \/ \E r \in Reqs, body \in Bodies : ReceiveAlone(r, body)
  \/ \E r \in Reqs : AfterDelay(r)
  \/ \E r \in Reqs, reply \in AuthProbeReplies : AuthReturn(r, reply)

AuthSpec == Init /\ [][AuthNext]_vars

(* ------------------------------- C21 ----------------------------------- *)

\* C21: when every call and store operation of a request settles, a
\* request that was received is eventually answered, with exactly one
\* response of status 400, 200 or 500, on every path; the handler never
\* ends without a response and never sends a second one.
C21_ExactlyOneResponse ==
  /\ [](\A r \in Reqs :
          /\ http[r].sent <= 1
          /\ http[r].sent = 1 <=> pc[r] = "done"
          /\ http[r].sent = 1 <=> http[r].code \in {400, 200, 500}
          /\ http[r].sent = 0 => http[r] = NoResponse)
  /\ \A r \in Reqs :
       (pc[r] # "idle") ~> (pc[r] = "done" /\ http[r].sent = 1)
  /\ [][\A r \in Reqs : http[r].sent = 1 => http'[r] = http[r]]_vars

\* a request answered 500 once although the error handler's update to
\* failed threw, beside a request answered 200 and one answer each
C21_Witness ==
  \E r, q \in Reqs :
    /\ Threw(r, "catchUpdate")
    /\ http[r].code = 500 /\ http[r].sent = 1
    /\ http[q].code = 200 /\ http[q].sent = 1

(* ------------------------------- C22 ----------------------------------- *)

\* the order in which the token fields are to be probed
C22_Order ==
  <<"result", "token", "Token", "accessToken", "access_token",
    "data.token", "data.Token">>

\* the positions of C22_Order at which body has a field
C22_Present(body) == {i \in DOMAIN C22_Order : C22_Order[i] \in DOMAIN body}

\* the positions of C22_Order at which body has a field with a truthy value
C22_Usable(body) == {i \in C22_Present(body) : Truthy(body[C22_Order[i]])}

\* the value of body at the least of the positions in at
C22_First(body, at) ==
  body[C22_Order[CHOOSE i \in at : \A j \in at : i <= j]]

\* the authenticate call of request r settled as follows: it failed, with an
\* error response for the request, if the call errored or at is empty, and
\* else it returned the value at the first position of at
C22_Settled(r, at) ==
  LET reply == ReplyOf(r, "authenticate")
  IN IF reply.err \/ at = {}
     THEN /\ Threw(r, "authenticate")
          /\ pc[r] = "done" /\ http[r].code = 500
     ELSE /\ Ok(r, "authenticate")
          /\ pc[r] = "nameEnquiry"
          /\ loc[r].token = C22_First(reply.body, at)

\* C22 as stated: authenticate returns the value of the first field of the
\* response that is present, in the order result, token, Token,
\* accessToken, access_token, data.token, data.Token, and fails exactly when
\* none is present or the call errors.
C22_FirstPresentField ==
  \A r \in Reqs :
    Settling(r, "authenticate") =>
      C22_Settled(r, C22_Present(ReplyOf(r, "authenticate").body))

\* C22 as amended: authenticate returns the value of the first field of
\* the response that has a truthy value (present, and not empty), in the
\* order result, token, Token, accessToken, access_token, data.token,
\* data.Token, and fails exactly when no field has one or the call errors.
C22_FirstTruthyField ==
  \A r \in Reqs :
    Settling(r, "authenticate") =>
      C22_Settled(r, C22_Usable(ReplyOf(r, "authenticate").body))

\* authenticate returned the accessToken of a response whose token field,
\* earlier in the order, is empty
C22_Witness ==
  \E r \in Reqs :
    /\ Ok(r, "authenticate")
    /\ ReplyOf(r, "authenticate").body = Obj2("token", "", "accessToken", "b")
    /\ loc[r].token = "b"

====
